---- MODULE Spec2Model ----
(***************************************************************************)
(* A model of the PTY session manager of src-tauri/src/pty.rs: the session *)
(* registry (PtyManager.sessions), the reader and waiter threads started   *)
(* by spawn_shell, the commands write_to_pty, resize_pty, kill_pty and     *)
(* get_cwd, and the two-phase termination of terminate_pid (Spec,          *)
(* FairSpec).                                                              *)
(*                                                                         *)
(* Every critical section of the registry mutex that contains no blocking  *)
(* call is one atomic action.  write_to_pty and get_cwd keep the registry  *)
(* guard and the session guard across their I/O, so they are split into    *)
(* steps and the two mutexes are explicit variables.                       *)
(*                                                                         *)
(* Three parts of the file share no state with the registry and have a     *)
(* specification each: the decoding of the bytes the reader thread reads   *)
(* (ReaderSpec), select_shell (ShellSpec) and list_directory (ListSpec).   *)
(* So have two parts of src-tauri/src/logger.rs: write_log with            *)
(* redact_secrets (RedactSpec, FairRedactSpec) and get_log_entries         *)
(* (LogSpec).                                                              *)
(***************************************************************************)
EXTENDS Naturals, Integers, Sequences, FiniteSets

\* ------------------------------------------------------------------ bounds
MaxSessions == 1      \* spawn_shell calls (successful or not)
NumCallers  == 2      \* threads of the host application calling commands
MaxCalls    == 3      \* write_to_pty, resize_pty, kill_pty and get_cwd calls in one run
MaxReads    == 1      \* non-empty reads of the reader thread, per session

Sids     == 1 .. MaxSessions
Callers  == 1 .. NumCallers
NoThread == 0

\* Outcomes of one spawn_shell call.
SpawnOutcomes == {"open_fail", "spawn_fail", "writer_fail", "reader_fail", "ok"}

\* write_all hands a payload to the writer in pieces: here a first piece, then
\* the rest.
Pieces == << "first", "rest" >>

VARIABLES
    sessions,      \* PtyManager.sessions: session id -> PtySession (child_id, cwd)
    regLock,       \* holder of the registry mutex (a caller, or NoThread)
    sessLock,      \* per session: holder of the PtySession mutex
    exit_emitted,  \* per session: the shared AtomicBool
    events,        \* per session: the events emitted to the frontend, in order
    spawnResult,   \* per spawn call: "none" before it, then its outcome
    proc,          \* per spawn call: the child shell: none, alive, zombie, reaped
    recycled,      \* per spawn call: the child's pid now names another process
    reader,        \* per session: the reader thread's position
    waiter,        \* per session: the waiter thread's position
    timer,         \* per session: the sleeping SIGKILL threads (the kill calls that started them)
    calls,         \* commands called so far
    pc,            \* per caller: position inside the command it runs
    arg,           \* per caller: the session id of the command it runs
    pidLocal,      \* per caller: kill_pty's local `pid`
    call,          \* per caller: the number of the call it runs
    piece,         \* per caller: pieces of the payload handed to the writer so far
    ret,           \* per caller: the result of the command that just returned
    op,            \* per caller: the command it runs or has just returned from
    stream,        \* per session: the pieces the writer received, << call, piece >>
    killLog,       \* per session id: the kill_pty calls, in order
    sigLog,        \* per session: the signals terminate_pid issued, in order
    removedBy,     \* per session: which step removed the record
    removeCount,   \* per session: steps that removed a present record
    insertCount,   \* per session: registry inserts
    pty_bytes,     \* reader thread: the bytes the shell writes to the PTY
    read_pos,      \* reader thread: how many of them `reader.read` has returned
    chunks,        \* reader thread: the slices `buf[..n]` read so far, in order
    payloads,      \* reader thread: the `data` of the "pty-output" events, in order
    SHELL,         \* select_shell: the environment variable SHELL
    shell,         \* select_shell: the shell it returned
    path,          \* list_directory: the path the caller typed
    dir,           \* list_directory: what read_dir yields for the directory d, in its order
    listing,       \* list_directory: the result
    input,         \* redact_secrets: its argument
    out,           \* redact_secrets: the local `out`
    stage,         \* redact_secrets: the loop it is in
    needle,        \* redact_secrets: which prefix or needle of the `for` it is at
    idx,           \* redact_secrets: the local `search_from` or `idx` of that loop
    written,       \* write_log: its result
    log_file,      \* get_log_entries: the day's audit file
    log_query,     \* get_log_entries: the arguments session_id and limit
    log_result     \* get_log_entries: the result

vars == << sessions, regLock, sessLock, exit_emitted, events, spawnResult,
           proc, recycled, reader, waiter, timer, calls,
           pc, arg, pidLocal, call, piece, ret, op,
           stream, killLog, sigLog, removedBy, removeCount, insertCount,
           pty_bytes, read_pos, chunks, payloads, SHELL, shell, path, dir, listing,
           input, out, stage, needle, idx, written, log_file, log_query, log_result >>

\* The state of the parts that share nothing with the session registry: the
\* decoding of the reader's loop, select_shell and list_directory of pty.rs,
\* write_log with redact_secrets and get_log_entries of logger.rs.
readerVars == << pty_bytes, read_pos, chunks, payloads >>
shellVars == << SHELL, shell >>
listVars == << path, dir, listing >>
redactVars == << input, out, stage, needle, idx, written >>
logVars == << log_file, log_query, log_result >>
pureVars == << readerVars, shellVars, listVars, redactVars, logVars >>

\* The registry, its threads and its callers.
ptyVars == << sessions, regLock, sessLock, exit_emitted, events, spawnResult,
             proc, recycled, reader, waiter, timer, calls,
             pc, arg, pidLocal, call, piece, ret, op,
             stream, killLog, sigLog, removedBy, removeCount, insertCount >>

\* ------------------------------------------------------------ helpers

\* parking_lot::Mutex::lock returns only when nobody holds the mutex.
LockIgnored(holder) == TRUE
LockFree(holder) == holder = NoThread

\* HashMap::remove: the map without the key (unchanged when the key is absent).
MapRemove(m, s) == [k \in DOMAIN m \ {s} |-> m[k]]

\* kill_pty: `sessions.remove(&session_id)`.
kill_pty_keep(m, s) == m
kill_pty_remove(m, s) == MapRemove(m, s)

\* The reader's and the waiter's `manager.sessions.lock().remove(&sid)`.
cleanup_skip(m, s) == m
cleanup_remove(m, s) == MapRemove(m, s)

\* HashMap::insert.
MapInsert(m, s, rec) == [k \in DOMAIN m \cup {s} |-> IF k = s THEN rec ELSE m[k]]

\* kill_pty: `sessions.remove(&session_id).is_some()`.
RemoveAlwaysSome(m, s) == TRUE
RemoveIsSome(m, s) == s \in DOMAIN m

\* write_to_pty, resize_pty, get_cwd: `sessions.get(&session_id)` is Some.
SessionNeverFound(m, s) == FALSE
SessionFound(m, s) == s \in DOMAIN m

\* kill_pty: `sessions.get(&session_id).map(|s| s.lock().child_id).unwrap_or(0)`.
LookupPid(m, s) == IF s \in DOMAIN m THEN m[s].child_id ELSE 0

\* The pid of the child of spawn call s (never 0: 0 stands for "unavailable").
PidOf(s) == s

\* Who a signal sent to the pid of session s reaches: the shell while it is
\* running or not yet reaped, nobody once it is reaped, another process once
\* the OS has given the pid away.
SignalTarget(s) ==
    IF proc[s] \in {"alive", "zombie"} THEN "shell"
    ELSE IF recycled[s] THEN "stray" ELSE "nobody"

\* History of the registry: a removal counts when the key was present.
NoteRemoval(s, who) ==
    /\ removedBy' = IF s \in DOMAIN sessions
                       THEN [removedBy EXCEPT ![s] = who] ELSE removedBy
    /\ removeCount' = IF s \in DOMAIN sessions
                         THEN [removeCount EXCEPT ![s] = @ + 1] ELSE removeCount

\* emit_pty_exit_once: swap the flag to true, emit when it was false.
emit_pty_exit_unguarded(s) ==
    /\ exit_emitted' = [exit_emitted EXCEPT ![s] = TRUE]
    /\ events' = [events EXCEPT ![s] = Append(@, "exit")]
emit_pty_exit_once(s) ==
    /\ exit_emitted' = [exit_emitted EXCEPT ![s] = TRUE]
    /\ events' = IF ~exit_emitted[s]
                    THEN [events EXCEPT ![s] = Append(@, "exit")]
                    ELSE events

\* Non-empty reads of session s so far.
Reads(s) == Cardinality({i \in DOMAIN events[s] : events[s][i] = "output"})

\* ------------------------------------------------------------ initial state
PtyInit ==
    /\ sessions = << >>
    /\ regLock = NoThread
    /\ sessLock = [s \in Sids |-> NoThread]
    /\ exit_emitted = [s \in Sids |-> FALSE]
    /\ events = [s \in Sids |-> << >>]
    /\ spawnResult = [s \in Sids |-> "none"]
    /\ proc = [s \in Sids |-> "none"]
    /\ recycled = [s \in Sids |-> FALSE]
    /\ reader = [s \in Sids |-> "none"]
    /\ waiter = [s \in Sids |-> "none"]
    /\ timer = [s \in Sids |-> {}]
    /\ calls = 0
    /\ pc = [c \in Callers |-> "idle"]
    /\ arg = [c \in Callers |-> 0]
    /\ pidLocal = [c \in Callers |-> 0]
    /\ call = [c \in Callers |-> 0]
    /\ piece = [c \in Callers |-> 0]
    /\ ret = [c \in Callers |-> "none"]
    /\ op = [c \in Callers |-> "none"]
    /\ stream = [s \in Sids |-> << >>]
    /\ killLog = [s \in Sids |-> << >>]
    /\ sigLog = [s \in Sids |-> << >>]
    /\ removedBy = [s \in Sids |-> "none"]
    /\ removeCount = [s \in Sids |-> 0]
    /\ insertCount = [s \in Sids |-> 0]

\* Nothing read, selected or listed yet.
ReaderIdle == pty_bytes = << >> /\ read_pos = 0 /\ chunks = << >> /\ payloads = << >>
ShellIdle == SHELL = [set |-> FALSE, value |-> << >>] /\ shell = << >>
ListIdle == path = << >> /\ dir = << >> /\ listing = [status |-> "none", entries |-> << >>]

RedactIdle ==
    /\ input = << >> /\ out = << >> /\ stage = "idle"
    /\ needle = 0 /\ idx = 0 /\ written = "none"
LogIdle ==
    /\ log_file = [exists |-> FALSE, lines |-> << >>]
    /\ log_query = [session |-> "any", limit |-> [some |-> FALSE, n |-> 0]]
    /\ log_result = [status |-> "none", entries |-> << >>]
LoggerIdle == RedactIdle /\ LogIdle

Init == PtyInit /\ ReaderIdle /\ ShellIdle /\ ListIdle /\ LoggerIdle

\* ------------------------------------------------------------ spawn_shell

\* The next spawn call's slot: uuid::Uuid::new_v4 never repeats an id.
NextSid ==
    CHOOSE s \in Sids :
        spawnResult[s] = "none" /\ \A r \in Sids : r < s => spawnResult[r] # "none"

\* One spawn_shell call.  openpty or spawn_command failing returns before a
\* child exists; take_writer or try_clone_reader failing returns after
\* spawn_command created the child, which nothing kills or waits for; on
\* success the record is inserted and the two threads are started.
spawn_shell(outcome, pidKnown) ==
    /\ \E s \in Sids : spawnResult[s] = "none"
    /\ LET s == NextSid IN
       /\ spawnResult' = [spawnResult EXCEPT ![s] = outcome]
       /\ proc' = IF outcome \in {"writer_fail", "reader_fail", "ok"}
                     THEN [proc EXCEPT ![s] = "alive"] ELSE proc
       /\ IF outcome = "ok"
             THEN /\ LockFree(regLock)
                  /\ sessions' = MapInsert(sessions, s,
                                    [child_id |-> IF pidKnown THEN PidOf(s) ELSE 0,
                                     cwd |-> "cwd"])
                  /\ insertCount' = [insertCount EXCEPT ![s] = @ + 1]
                  /\ reader' = [reader EXCEPT ![s] = "reading"]
                  /\ waiter' = [waiter EXCEPT ![s] = "waiting"]
             ELSE /\ pidKnown
                  /\ UNCHANGED << sessions, insertCount, reader, waiter >>
    /\ UNCHANGED << regLock, sessLock, exit_emitted, events, recycled, timer, calls,
                    pc, arg, pidLocal, call, piece, ret, stream, killLog, sigLog,
                    removedBy, removeCount >>
    /\ UNCHANGED op
    /\ UNCHANGED pureVars

\* ------------------------------------------------------------ the child and the OS

\* The shell exits: on its own, or because it acts on SIGTERM or a hang-up.
ProcExit(s) ==
    /\ proc[s] = "alive"
    /\ proc' = [proc EXCEPT ![s] = "zombie"]
    /\ UNCHANGED << sessions, regLock, sessLock, exit_emitted, events, spawnResult,
                    recycled, reader, waiter, timer, calls, pc, arg, pidLocal, call,
                    piece, ret, stream, killLog, sigLog, removedBy, removeCount,
                    insertCount >>
    /\ UNCHANGED op
    /\ UNCHANGED pureVars

\* The OS gives the pid of a reaped child to a new, unrelated process.
PidRecycle(s) ==
    /\ proc[s] = "reaped"
    /\ ~recycled[s]
    /\ recycled' = [recycled EXCEPT ![s] = TRUE]
    /\ UNCHANGED << sessions, regLock, sessLock, exit_emitted, events, spawnResult,
                    proc, reader, waiter, timer, calls, pc, arg, pidLocal, call,
                    piece, ret, stream, killLog, sigLog, removedBy, removeCount,
                    insertCount >>
    /\ UNCHANGED op
    /\ UNCHANGED pureVars

\* ------------------------------------------------------------ reader thread

\* reader.read returns Ok(n), n > 0: a "pty-output" event.
reader_output(s) ==
    /\ reader[s] = "reading"
    /\ Reads(s) < MaxReads
    /\ events' = [events EXCEPT ![s] = Append(@, "output")]
    /\ UNCHANGED << sessions, regLock, sessLock, exit_emitted, spawnResult, proc,
                    recycled, reader, waiter, timer, calls, pc, arg, pidLocal, call,
                    piece, ret, stream, killLog, sigLog, removedBy, removeCount,
                    insertCount >>
    /\ UNCHANGED op
    /\ UNCHANGED pureVars

\* reader.read returns Ok(0): the slave side is closed, the shell is gone.
reader_eof(s) ==
    /\ reader[s] = "reading"
    /\ proc[s] # "alive"
    /\ emit_pty_exit_once(s)
    /\ reader' = [reader EXCEPT ![s] = "cleanup"]
    /\ UNCHANGED << sessions, regLock, sessLock, spawnResult, proc, recycled, waiter,
                    timer, calls, pc, arg, pidLocal, call, piece, ret, stream,
                    killLog, sigLog, removedBy, removeCount, insertCount >>
    /\ UNCHANGED op
    /\ UNCHANGED pureVars

\* reader.read returns Err(_): any read error ends the loop, whatever the shell does.
reader_err(s) ==
    /\ reader[s] = "reading"
    /\ emit_pty_exit_once(s)
    /\ reader' = [reader EXCEPT ![s] = "cleanup"]
    /\ UNCHANGED << sessions, regLock, sessLock, spawnResult, proc, recycled, waiter,
                    timer, calls, pc, arg, pidLocal, call, piece, ret, stream,
                    killLog, sigLog, removedBy, removeCount, insertCount >>
    /\ UNCHANGED op
    /\ UNCHANGED pureVars

\* `manager.sessions.lock().remove(&sid)` of the reader thread.
reader_cleanup(s) ==
    /\ reader[s] = "cleanup"
    /\ LockFree(regLock)
    /\ sessions' = cleanup_remove(sessions, s)
    /\ NoteRemoval(s, "reader")
    /\ reader' = [reader EXCEPT ![s] = "done"]
    /\ UNCHANGED << regLock, sessLock, exit_emitted, events, spawnResult, proc,
                    recycled, waiter, timer, calls, pc, arg, pidLocal, call, piece,
                    ret, stream, killLog, sigLog, insertCount >>
    /\ UNCHANGED op
    /\ UNCHANGED pureVars

\* ------------------------------------------------------------ waiter thread

\* child.wait() returns: the exited child is reaped, its pid is free again.
waiter_wait(s) ==
    /\ waiter[s] = "waiting"
    /\ proc[s] = "zombie"
    /\ proc' = [proc EXCEPT ![s] = "reaped"]
    /\ waiter' = [waiter EXCEPT ![s] = "emit"]
    /\ UNCHANGED << sessions, regLock, sessLock, exit_emitted, events, spawnResult,
                    recycled, reader, timer, calls, pc, arg, pidLocal, call, piece,
                    ret, stream, killLog, sigLog, removedBy, removeCount,
                    insertCount >>
    /\ UNCHANGED op
    /\ UNCHANGED pureVars

waiter_emit(s) ==
    /\ waiter[s] = "emit"
    /\ emit_pty_exit_once(s)
    /\ waiter' = [waiter EXCEPT ![s] = "cleanup"]
    /\ UNCHANGED << sessions, regLock, sessLock, spawnResult, proc, recycled, reader,
                    timer, calls, pc, arg, pidLocal, call, piece, ret, stream,
                    killLog, sigLog, removedBy, removeCount, insertCount >>
    /\ UNCHANGED op
    /\ UNCHANGED pureVars

\* `manager.sessions.lock().remove(&sid2)` of the waiter thread.
waiter_cleanup(s) ==
    /\ waiter[s] = "cleanup"
    /\ LockFree(regLock)
    /\ sessions' = cleanup_remove(sessions, s)
    /\ NoteRemoval(s, "waiter")
    /\ waiter' = [waiter EXCEPT ![s] = "done"]
    /\ UNCHANGED << regLock, sessLock, exit_emitted, events, spawnResult, proc,
                    recycled, reader, timer, calls, pc, arg, pidLocal, call, piece,
                    ret, stream, killLog, sigLog, insertCount >>
    /\ UNCHANGED op
    /\ UNCHANGED pureVars

\* ------------------------------------------------------------ commands

\* A command is called by an idle caller with an id that exists: the id of a
\* session, or (the slot of a failed spawn) an id that never named a session.
Called(c, s, cmd) ==
    /\ pc[c] = "idle"
    /\ spawnResult[s] # "none"
    /\ calls < MaxCalls
    /\ calls' = calls + 1
    /\ arg' = [arg EXCEPT ![c] = s]
    /\ op' = [op EXCEPT ![c] = cmd]

\* A command returns r: its locals are gone.
Returns(c, r) ==
    /\ pc' = [pc EXCEPT ![c] = "returned"]
    /\ ret' = [ret EXCEPT ![c] = r]
    /\ pidLocal' = [pidLocal EXCEPT ![c] = 0]
    /\ call' = [call EXCEPT ![c] = 0]
    /\ piece' = [piece EXCEPT ![c] = 0]

\* The guards of a command are dropped when it returns, and on every `?`.
Unlock(c, s) ==
    /\ regLock' = NoThread
    /\ sessLock' = [sessLock EXCEPT ![s] = NoThread]

\* write_to_pty up to `session.lock()`: the registry guard is taken, the id is
\* looked up, and the session guard is taken.  Both guards live to the end of
\* the function.
write_to_pty_begin(c, s) ==
    /\ Called(c, s, "write")
    /\ LockFree(regLock)
    /\ IF SessionFound(sessions, s)
          THEN /\ LockFree(sessLock[s])
               /\ regLock' = c
               /\ sessLock' = [sessLock EXCEPT ![s] = c]
               /\ pc' = [pc EXCEPT ![c] = "write_all"]
               /\ call' = [call EXCEPT ![c] = calls + 1]
               /\ UNCHANGED << ret, pidLocal, piece >>
          ELSE /\ Returns(c, "NotFound")
               /\ UNCHANGED << regLock, sessLock >>
    /\ UNCHANGED << sessions, exit_emitted, events, spawnResult, proc, recycled,
                    reader, waiter, timer, stream, killLog, sigLog, removedBy,
                    removeCount, insertCount >>
    /\ UNCHANGED pureVars

\* One write of write_all's loop: the next piece of the payload reaches the writer.
write_to_pty_write_all(c) ==
    /\ pc[c] = "write_all"
    /\ stream' = [stream EXCEPT ![arg[c]] = Append(@, << call[c], Pieces[piece[c] + 1] >>)]
    /\ piece' = [piece EXCEPT ![c] = @ + 1]
    /\ pc' = [pc EXCEPT ![c] = IF piece[c] + 1 = Len(Pieces) THEN "flush" ELSE "write_all"]
    /\ UNCHANGED << sessions, regLock, sessLock, exit_emitted, events, spawnResult,
                    proc, recycled, reader, waiter, timer, calls, arg, pidLocal,
                    call, ret, killLog, sigLog, removedBy, removeCount, insertCount >>
    /\ UNCHANGED op
    /\ UNCHANGED pureVars

\* writer.flush() succeeds: Ok(()).
write_to_pty_flush(c) ==
    /\ pc[c] = "flush"
    /\ Unlock(c, arg[c])
    /\ Returns(c, "Ok")
    /\ UNCHANGED << sessions, exit_emitted, events, spawnResult, proc, recycled,
                    reader, waiter, timer, calls, arg, stream, killLog, sigLog,
                    removedBy, removeCount, insertCount >>
    /\ UNCHANGED op
    /\ UNCHANGED pureVars

\* write_all or flush fails: the error is returned, the record stays.
write_to_pty_io_error_dropping(c) ==
    /\ pc[c] \in {"write_all", "flush"}
    /\ Unlock(c, arg[c])
    /\ Returns(c, "IoError")
    /\ sessions' = MapRemove(sessions, arg[c])
    /\ UNCHANGED << exit_emitted, events, spawnResult, proc, recycled,
                    reader, waiter, timer, calls, arg, stream, killLog, sigLog,
                    removedBy, removeCount, insertCount >>
    /\ UNCHANGED op
    /\ UNCHANGED pureVars
write_to_pty_io_error(c) ==
    /\ pc[c] \in {"write_all", "flush"}
    /\ Unlock(c, arg[c])
    /\ Returns(c, "IoError")
    /\ UNCHANGED << sessions, exit_emitted, events, spawnResult, proc, recycled,
                    reader, waiter, timer, calls, arg, stream, killLog, sigLog,
                    removedBy, removeCount, insertCount >>
    /\ UNCHANGED op
    /\ UNCHANGED pureVars

\* resize_pty: under the registry guard and the session guard, one
\* `master.resize(..)` (an ioctl, which does not block); it succeeds or fails,
\* and the guards are dropped either way.  Nothing is stored.
resize_pty(c, s, ok) ==
    /\ Called(c, s, "resize")
    /\ LockFree(regLock)
    /\ IF SessionFound(sessions, s)
          THEN /\ LockFree(sessLock[s])
               /\ Returns(c, IF ok THEN "Ok" ELSE "IoError")
          ELSE /\ ok
               /\ Returns(c, "NotFound")
    /\ UNCHANGED << sessions, regLock, sessLock, exit_emitted, events, spawnResult,
                    proc, recycled, reader, waiter, timer, stream, killLog, sigLog,
                    removedBy, removeCount, insertCount >>
    /\ UNCHANGED pureVars

\* kill_pty's block under the registry guard: read the pid, remove the record.
kill_pty(c, s) ==
    /\ Called(c, s, "kill")
    /\ LockFree(regLock)
    /\ s \in DOMAIN sessions => LockFree(sessLock[s])
    /\ LET pid == LookupPid(sessions, s)
           removed == RemoveIsSome(sessions, s)
       IN  /\ sessions' = kill_pty_remove(sessions, s)
           /\ NoteRemoval(s, "kill")
           /\ killLog' = [killLog EXCEPT ![s] =
                             Append(@, [ok |-> removed, registered |-> s \in DOMAIN sessions,
                                        prior |-> removedBy[s]])]
           /\ IF removed
                 THEN /\ pc' = [pc EXCEPT ![c] = "terminate"]
                      /\ pidLocal' = [pidLocal EXCEPT ![c] = pid]
                      /\ call' = [call EXCEPT ![c] = Len(killLog[s]) + 1]
                      /\ UNCHANGED << ret, piece >>
                 ELSE Returns(c, "NotFound")
    /\ UNCHANGED << regLock, sessLock, exit_emitted, events, spawnResult, proc,
                    recycled, reader, waiter, timer, stream, sigLog, insertCount >>
    /\ UNCHANGED pureVars

\* A signal issued to the pid of session s, with what it met there.
Signal(sig, s, by) ==
    [sig |-> sig, by |-> by, exited |-> proc[s] # "alive", target |-> SignalTarget(s)]

\* terminate_pid(pid), called by kill_pty after the guard is dropped: nothing
\* for pid 0; otherwise `kill -TERM pid`, then a detached thread is started
\* that sleeps 750 ms.  kill_pty then returns Ok(()).
terminate_pid(c) ==
    /\ pc[c] = "terminate"
    /\ IF pidLocal[c] = 0
          THEN UNCHANGED << sigLog, timer >>
          ELSE /\ sigLog' = [sigLog EXCEPT ![arg[c]] = Append(@, Signal("TERM", arg[c], call[c]))]
               /\ timer' = [timer EXCEPT ![arg[c]] = @ \cup {call[c]}]
    /\ Returns(c, "Ok")
    /\ UNCHANGED << sessions, regLock, sessLock, exit_emitted, events, spawnResult,
                    proc, recycled, reader, waiter, calls, arg, stream, killLog,
                    removedBy, removeCount, insertCount >>
    /\ UNCHANGED op
    /\ UNCHANGED pureVars

\* The detached thread wakes up and runs `kill -KILL pid`, whatever happened
\* to the shell in between.  A shell that is still running cannot ignore it.
terminate_pid_timer(s, k) ==
    /\ k \in timer[s]
    /\ timer' = [timer EXCEPT ![s] = @ \ {k}]
    /\ sigLog' = [sigLog EXCEPT ![s] = Append(@, Signal("KILL", s, k))]
    /\ proc' = IF proc[s] = "alive" THEN [proc EXCEPT ![s] = "zombie"] ELSE proc
    /\ UNCHANGED << sessions, regLock, sessLock, exit_emitted, events, spawnResult,
                    recycled, reader, waiter, calls, pc, arg, pidLocal, call, piece,
                    ret, stream, killLog, removedBy, removeCount, insertCount >>
    /\ UNCHANGED op
    /\ UNCHANGED pureVars

\* get_cwd up to the lookup: both guards are taken; with child_id 0 the
\* stored cwd is returned at once.
get_cwd_begin(c, s) ==
    /\ Called(c, s, "get_cwd")
    /\ LockFree(regLock)
    /\ IF ~SessionFound(sessions, s)
          THEN /\ Returns(c, "NotFound")
               /\ UNCHANGED << regLock, sessLock >>
          ELSE /\ LockFree(sessLock[s])
               /\ IF sessions[s].child_id > 0
                     THEN /\ regLock' = c
                          /\ sessLock' = [sessLock EXCEPT ![s] = c]
                          /\ pc' = [pc EXCEPT ![c] = "get_process_cwd"]
                          /\ UNCHANGED << ret, pidLocal, call, piece >>
                     ELSE /\ Returns(c, "fallback")
                          /\ UNCHANGED << regLock, sessLock >>
    /\ UNCHANGED << sessions, exit_emitted, events, spawnResult, proc, recycled,
                    reader, waiter, timer, stream, killLog, sigLog, removedBy,
                    removeCount, insertCount >>
    /\ UNCHANGED pureVars

\* get_cwd's result after the lookup: Ok(real) when get_process_cwd returned
\* Some(real), Ok(fallback), the cwd stored at spawn, when it returned None.
get_cwd_result_strict(found) == IF found THEN "real_cwd" ELSE "IoError"
get_cwd_result(found) == IF found THEN "real_cwd" ELSE "fallback"

\* get_process_cwd (lsof, or /proc/<pid>/cwd) returns: the live directory, or
\* None and the stored cwd is returned.
get_cwd_end(c, found) ==
    /\ pc[c] = "get_process_cwd"
    /\ Unlock(c, arg[c])
    /\ Returns(c, get_cwd_result(found))
    /\ UNCHANGED << sessions, exit_emitted, events, spawnResult, proc, recycled,
                    reader, waiter, timer, calls, arg, stream, killLog, sigLog,
                    removedBy, removeCount, insertCount >>
    /\ UNCHANGED op
    /\ UNCHANGED pureVars

\* The caller has its result and is free to call the next command.
Return(c) ==
    /\ pc[c] = "returned"
    /\ pc' = [pc EXCEPT ![c] = "idle"]
    /\ arg' = [arg EXCEPT ![c] = 0]
    /\ ret' = [ret EXCEPT ![c] = "none"]
    /\ op' = [op EXCEPT ![c] = "none"]
    /\ UNCHANGED << sessions, regLock, sessLock, exit_emitted, events, spawnResult,
                    proc, recycled, reader, waiter, timer, calls, pidLocal, call,
                    piece, stream, killLog, sigLog, removedBy, removeCount,
                    insertCount >>
    /\ UNCHANGED pureVars

\* ------------------------------------------------------------ specification
Next ==
    \/ \E o \in SpawnOutcomes, k \in BOOLEAN : spawn_shell(o, k)
    \/ \E s \in Sids : ProcExit(s)
    \/ \E s \in Sids : PidRecycle(s)
    \/ \E s \in Sids : reader_output(s)
    \/ \E s \in Sids : reader_eof(s)
    \/ \E s \in Sids : reader_err(s)
    \/ \E s \in Sids : reader_cleanup(s)
    \/ \E s \in Sids : waiter_wait(s)
    \/ \E s \in Sids : waiter_emit(s)
    \/ \E s \in Sids : waiter_cleanup(s)
    \/ \E c \in Callers, s \in Sids : write_to_pty_begin(c, s)
    \/ \E c \in Callers : write_to_pty_write_all(c)
    \/ \E c \in Callers : write_to_pty_flush(c)
    \/ \E c \in Callers : write_to_pty_io_error(c)
    \/ \E c \in Callers, s \in Sids, ok \in BOOLEAN : resize_pty(c, s, ok)
    \/ \E c \in Callers, s \in Sids : kill_pty(c, s)
    \/ \E c \in Callers : terminate_pid(c)
    \/ \E s \in Sids, k \in 1 .. MaxCalls : terminate_pid_timer(s, k)
    \/ \E c \in Callers, s \in Sids : get_cwd_begin(c, s)
    \/ \E c \in Callers, b \in BOOLEAN : get_cwd_end(c, b)
    \/ \E c \in Callers : Return(c)

Spec == Init /\ [][Next]_vars

\* The threads of the program are scheduled fairly: a thread that can take
\* its next step takes it.  The shell exiting on its own, read errors, the
\* callers' choice of commands and blocking I/O ending are not forced.
FairSpec ==
    /\ Spec
    /\ \A s \in Sids : WF_vars(reader_eof(s))
    /\ \A s \in Sids : WF_vars(reader_cleanup(s))
    /\ \A s \in Sids : WF_vars(waiter_wait(s))
    /\ \A s \in Sids : WF_vars(waiter_emit(s))
    /\ \A s \in Sids : WF_vars(waiter_cleanup(s))
    /\ \A c \in Callers : WF_vars(terminate_pid(c))
    /\ \A s \in Sids, k \in 1 .. MaxCalls : WF_vars(terminate_pid_timer(s, k))

\* ------------------------------------------------------------ the reader's loop, byte by byte

MaxBytes == 3     \* bytes the shell writes in one run
BufSize  == 2     \* the reader's buffer (`[0u8; 4096]`), scaled down

\* Bytes of UTF-8 text: an ASCII byte, the lead byte of a two-byte character
\* and a continuation byte ("a", 0xC3, 0xA9: "H" "c" encodes one e-acute).
Bytes == {"a", "H", "c"}

\* Every byte string of at most n bytes.
ByteStrings(n) == UNION {[1 .. k -> Bytes] : k \in 0 .. n}

\* String::from_utf8_lossy on a byte slice: valid sequences decode to their
\* character; a lead byte without its continuation byte, and a continuation
\* byte without a lead byte, each become U+FFFD.
RECURSIVE from_utf8_lossy(_)
from_utf8_lossy(b) ==
    IF b = << >> THEN << >>
    ELSE IF b[1] = "a" THEN << "a" >> \o from_utf8_lossy(Tail(b))
    ELSE IF b[1] = "H" /\ Len(b) >= 2 /\ b[2] = "c"
            THEN << "U+00E9" >> \o from_utf8_lossy(Tail(Tail(b)))
    ELSE << "U+FFFD" >> \o from_utf8_lossy(Tail(b))

\* The strings of a sequence, one after the other.
RECURSIVE Concat(_)
Concat(q) == IF q = << >> THEN << >> ELSE Head(q) \o Concat(Tail(q))

\* One turn of the reader's loop with Ok(n), n > 0: `reader.read(&mut buf)`
\* returns the next n bytes (at most the buffer, at most what is there), and
\* `String::from_utf8_lossy(&buf[..n])` is emitted as "pty-output".
reader_output_chunk(n) ==
    /\ n \in 1 .. BufSize
    /\ read_pos + n <= Len(pty_bytes)
    /\ LET slice == SubSeq(pty_bytes, read_pos + 1, read_pos + n) IN
       /\ chunks' = Append(chunks, slice)
       /\ payloads' = Append(payloads, from_utf8_lossy(slice))
    /\ read_pos' = read_pos + n
    /\ UNCHANGED << pty_bytes, shellVars, listVars, redactVars, logVars, ptyVars >>

\* The shell may write any bytes.
ReaderInit ==
    /\ pty_bytes \in ByteStrings(MaxBytes)
    /\ read_pos = 0
    /\ chunks = << >>
    /\ payloads = << >>
    /\ PtyInit /\ ShellIdle /\ ListIdle /\ LoggerIdle

ReaderNext == \E n \in 1 .. BufSize : reader_output_chunk(n)

ReaderSpec == ReaderInit /\ [][ReaderNext]_vars

\* ------------------------------------------------------------ select_shell

MaxShellLen == 3     \* parts of the value of SHELL

\* What a value of SHELL is spelled with.  The three allow-listed paths are
\* "/bin" followed by "/zsh", "/bash" or "/sh"; every other spelling (longer,
\* shorter, another directory or name, a trailing blank) is another string.
ShellParts == {"/bin", "/zsh", "/bash", "/sh", " "}

zsh  == << "/bin", "/zsh" >>
bash == << "/bin", "/bash" >>
sh   == << "/bin", "/sh" >>

\* std::env::var("SHELL"): unset, or set to some string.
EnvValues ==
    {[set |-> FALSE, value |-> << >>]}
        \cup {[set |-> TRUE, value |-> v] :
                 v \in UNION {[1 .. k -> ShellParts] : k \in 0 .. MaxShellLen}}

\* select_shell: `raw` is the variable or, unset, the fallback; an allow-listed
\* `raw` is returned as it is, the fallback otherwise.
select_shell_unchecked(env) == IF env.set THEN env.value ELSE zsh
select_shell(env) ==
    LET fallback == zsh
        raw == IF env.set THEN env.value ELSE fallback
    IN  IF raw \in {zsh, bash, sh} THEN raw ELSE fallback

\* spawn_shell's `let shell = select_shell();`.
spawn_shell_select ==
    /\ shell = << >>
    /\ shell' = select_shell(SHELL)
    /\ UNCHANGED << SHELL, readerVars, listVars, redactVars, logVars, ptyVars >>

ShellInit ==
    /\ SHELL \in EnvValues
    /\ shell = << >>
    /\ PtyInit /\ ReaderIdle /\ ListIdle /\ LoggerIdle

ShellNext == spawn_shell_select

ShellSpec == ShellInit /\ [][ShellNext]_vars

\* ------------------------------------------------------------ list_directory

MaxPathLen == 4     \* characters of the typed path
MaxEntries == 3     \* entries of the directory d

\* Strings are sequences of characters.  The file system: "/" is also the
\* working directory of the process and holds one directory, d, which is also
\* the home directory; d holds the entries `dir`; a directory inside d is empty.
PathChars == {"/", ".", "~", "d", "h"}
Paths == UNION {[1 .. k -> PathChars] : k \in 0 .. MaxPathLen}

d_name     == << "d" >>
a_txt      == << "a" >>              \* a.txt
dot_hidden == << ".", "h", "i" >>    \* .hidden
sub        == << "s" >>              \* sub
Names == {a_txt, dot_hidden, sub, << "B" >>, << "b" >>}

Root == << >>
Home == << d_name >>

\* What read_dir can yield for d: entries with distinct names, in any order.
Entries == [name : Names, is_dir : BOOLEAN]
Dirs ==
    {q \in UNION {[1 .. k -> Entries] : k \in 0 .. MaxEntries} :
        \A i, j \in DOMAIN q : i # j => q[i].name # q[j].name}

\* The directory of the example: the files a.txt and .hidden and the directory sub.
InExampleDir(e) ==
    \/ e = [name |-> a_txt, is_dir |-> FALSE]
    \/ e = [name |-> dot_hidden, is_dir |-> FALSE]
    \/ e = [name |-> sub, is_dir |-> TRUE]
IsExampleDir(q) == Len(q) = 3 /\ \A i \in DOMAIN q : InExampleDir(q[i])

\* Typed paths that name d: plainly, with "." as last component, as "~".
PathsOfD == {<< "d" >>, << "d", "/" >>, << "d", "/", "." >>, << "~" >>}

\* str::trim_end_matches and str::trim_start_matches with one character.
RECURSIVE trim_end_matches(_, _)
trim_end_matches(p, ch) ==
    IF p # << >> /\ p[Len(p)] = ch
       THEN trim_end_matches(SubSeq(p, 1, Len(p) - 1), ch)
       ELSE p
RECURSIVE trim_start_matches(_, _)
trim_start_matches(p, ch) ==
    IF p # << >> /\ p[1] = ch THEN trim_start_matches(Tail(p), ch) ELSE p

\* `typed.rsplit('/').next()`: what follows the last '/', all of it without one.
last_component(p) ==
    LET slashes == {i \in DOMAIN p : p[i] = "/"} IN
    IF slashes = {} THEN p
    ELSE SubSeq(p, (CHOOSE i \in slashes : \A j \in slashes : j <= i) + 1, Len(p))

\* str::starts_with with one character.
starts_with(str, ch) == str # << >> /\ str[1] = ch

\* The components of a path: the non-empty pieces between '/'.
RECURSIVE Components(_)
Components(p) ==
    IF p = << >> THEN << >>
    ELSE IF p[1] = "/" THEN Components(Tail(p))
    ELSE LET slashes == {i \in DOMAIN p : p[i] = "/"}
             n == IF slashes = {} THEN Len(p) + 1
                  ELSE CHOOSE i \in slashes : \A j \in slashes : i <= j
         IN  << SubSeq(p, 1, n - 1) >> \o Components(SubSeq(p, n, Len(p)))

\* A directory `at` has the directory c as a child.
IsDirChild(content, at, c) ==
    IF at = Root THEN c = d_name
    ELSE IF at = Home THEN \E i \in DOMAIN content : content[i] = [name |-> c, is_dir |-> TRUE]
    ELSE FALSE

\* The OS resolving the components from the directory `at`: found is
\* `exists() && is_dir()`.
RECURSIVE Walk(_, _, _)
Walk(content, at, comps) ==
    IF comps = << >> THEN [found |-> TRUE, at |-> at]
    ELSE IF Head(comps) = << "." >> THEN Walk(content, at, Tail(comps))
    ELSE IF Head(comps) = << ".", "." >>
            THEN Walk(content, IF at = Root THEN Root ELSE SubSeq(at, 1, Len(at) - 1),
                      Tail(comps))
    ELSE IF IsDirChild(content, at, Head(comps))
            THEN Walk(content, Append(at, Head(comps)), Tail(comps))
    ELSE [found |-> FALSE, at |-> at]

\* `target`: for "~..." the home directory joined with the rest (leading '/'
\* trimmed), else the path itself; the empty path names nothing.
Target(content, p) ==
    IF starts_with(p, "~")
       THEN Walk(content, Home, Components(trim_start_matches(Tail(p), "/")))
    ELSE IF p = << >> THEN [found |-> FALSE, at |-> Root]
    ELSE Walk(content, Root, Components(p))

\* std::fs::read_dir of a directory.
ReadDir(content, at) ==
    IF at = Root THEN << [name |-> d_name, is_dir |-> TRUE] >>
    ELSE IF at = Home THEN content
    ELSE << >>

\* str::to_lowercase.
to_lowercase(str) == [i \in DOMAIN str |-> IF str[i] = "B" THEN "b" ELSE str[i]]

\* The bytes of the characters, and `cmp` on strings: byte by byte, a proper
\* prefix first.
Byte(ch) ==
    CASE ch = "." -> 46 [] ch = "/" -> 47 [] ch = "B" -> 66 [] ch = "a" -> 97
      [] ch = "b" -> 98 [] ch = "d" -> 100 [] ch = "h" -> 104 [] ch = "i" -> 105
      [] ch = "s" -> 115 [] ch = "~" -> 126
RECURSIVE StrLess(_, _)
StrLess(x, y) ==
    IF y = << >> THEN FALSE
    ELSE IF x = << >> THEN TRUE
    ELSE IF Byte(x[1]) # Byte(y[1]) THEN Byte(x[1]) < Byte(y[1])
    ELSE StrLess(Tail(x), Tail(y))

\* The closure of `entries.sort_by`: Less when a directory meets a file, the
\* lower-cased names compared otherwise.
entry_less_by_name(x, y) == StrLess(to_lowercase(x.name), to_lowercase(y.name))
entry_less(x, y) ==
    \/ x.is_dir /\ ~y.is_dir
    \/ x.is_dir = y.is_dir /\ StrLess(to_lowercase(x.name), to_lowercase(y.name))

\* slice::sort_by, a stable sort: each element goes before the first one that
\* is greater, behind its equals.
RECURSIVE sort_by(_)
sort_by(q) ==
    IF q = << >> THEN << >>
    ELSE LET s == sort_by(SubSeq(q, 1, Len(q) - 1))
             e == q[Len(q)]
             gt == {i \in DOMAIN s : entry_less(e, s[i])}
             k == IF gt = {} THEN Len(s) + 1 ELSE CHOOSE i \in gt : \A j \in gt : i <= j
         IN  SubSeq(s, 1, k - 1) \o << e >> \o SubSeq(s, k, Len(s))

\* `show_hidden`: the last component of the typed path begins with a dot.
show_hidden(p) == starts_with(last_component(trim_end_matches(p, "/")), ".")

\* The loop over read_dir: a dot-name is skipped unless show_hidden.
Kept(p, e) == show_hidden(p) \/ ~starts_with(e.name, ".")

\* list_directory(path): an error without a home directory for "~...", or when
\* read_dir fails; no entries when the target is missing or no directory; else
\* the kept entries of the target, sorted.  (Of an entry, its name and isDir.)
list_directory(p, content, home_ok, read_ok) ==
    LET t == Target(content, p) IN
    IF starts_with(p, "~") /\ ~home_ok THEN [status |-> "Err", entries |-> << >>]
    ELSE IF ~t.found THEN [status |-> "Ok", entries |-> << >>]
    ELSE IF ~read_ok THEN [status |-> "Err", entries |-> << >>]
    ELSE [status |-> "Ok",
          entries |-> sort_by(SelectSeq(ReadDir(content, t.at), LAMBDA e : Kept(p, e)))]

\* One call of the command.
list_directory_call(home_ok, read_ok) ==
    /\ listing.status = "none"
    /\ listing' = list_directory(path, dir, home_ok, read_ok)
    /\ UNCHANGED << path, dir, readerVars, shellVars, redactVars, logVars, ptyVars >>

\* Any typed path on the directory of the example; a path that names d on any
\* directory content.
ListInit ==
    /\ dir \in Dirs
    /\ path \in Paths
    /\ IsExampleDir(dir) \/ path \in PathsOfD
    /\ listing = [status |-> "none", entries |-> << >>]
    /\ PtyInit /\ ReaderIdle /\ ShellIdle /\ LoggerIdle

ListNext == \E home_ok, read_ok \in BOOLEAN : list_directory_call(home_ok, read_ok)

ListSpec == ListInit /\ [][ListNext]_vars

\* ------------------------------------------------------------ write_log and redact_secrets (logger.rs)

MaxParts == 3        \* parts an input string is put together from
MinTokenLen == 8     \* `end - start >= prefix.len() + 8`

\* Strings are sequences of characters, all ASCII here: a character is a byte
\* and every offset is a character boundary.
bearer_needle == << "a", "u", "t", "h", "o", "r", "i", "z", "a", "t", "i", "o", "n", ":", " ", "b", "e", "a", "r", "e", "r", " " >>
REDACTED == << "[", "R", "E", "D", "A", "C", "T", "E", "D", "]" >>
Prefixes == << << "s", "k", "-", "a", "n", "t", "-" >>,
              << "s", "k", "-" >> >>
Needles == << << "a", "p", "i", "K", "e", "y" >>,
             << "a", "p", "i", "_", "k", "e", "y" >>,
             << "a", "p", "i", "k", "e", "y" >> >>

\* What an input is put together from: the bearer header, a short token, a
\* blank, a quote, the two key prefixes, a run of eight token characters, two
\* spellings of the key name, and a separator.
InputParts ==
    { << "A", "u", "t", "h", "o", "r", "i", "z", "a", "t", "i", "o", "n", ":", " ", "B", "e", "a", "r", "e", "r", " " >>,
      << "t", "o", "k" >>,
      << " " >>,
      << "'" >>,
      << "s", "k", "-" >>,
      << "s", "k", "-", "a", "n", "t", "-" >>,
      << "a", "b", "c", "d", "e", "f", "g", "h" >>,
      << "a", "p", "i", "K", "e", "y" >>,
      << "a", "p", "i", "_", "k", "e", "y" >>,
      << "=" >> }
Inputs == {Concat(q) : q \in UNION {[1 .. k -> InputParts] : k \in 0 .. MaxParts}}

Whitespace == {" "}
Quotes == {"'"}
UpperCase == {"A", "B", "C", "D", "E", "K", "R", "T"}
LowerCase == {"a", "b", "c", "d", "e", "f", "g", "h", "i", "k", "n", "o", "p", "r",
              "s", "t", "u", "y", "z"}

\* char::is_ascii_alphanumeric, or '-' or '_'.
TokenChar(ch) == ch \in UpperCase \cup LowerCase \cup {"-", "_"}

\* str::to_ascii_lowercase.
LowerCh(ch) ==
    CASE ch = "A" -> "a" [] ch = "B" -> "b" [] ch = "C" -> "c" [] ch = "D" -> "d"
      [] ch = "E" -> "e" [] ch = "K" -> "k" [] ch = "R" -> "r" [] ch = "T" -> "t"
      [] OTHER -> ch
to_ascii_lowercase(str) == [i \in DOMAIN str |-> LowerCh(str[i])]

\* `&str[from..]`, defined for from <= len.
Slice(str, from) == SubSeq(str, from + 1, Len(str))

\* The offsets at which str::find could match: a pattern string, a character
\* of a set, a character that is no token character.  find returns the least.
Matches(hay, pat) ==
    {i \in 0 .. (Len(hay) - Len(pat)) : SubSeq(hay, i + 1, i + Len(pat)) = pat}
CharMatches(hay, set) == {i \in 0 .. (Len(hay) - 1) : hay[i + 1] \in set}
Least(set) == CHOOSE i \in set : \A j \in set : i <= j

\* String::replace_range(s..e, with).
replace_range(str, s, e, with) == SubSeq(str, 1, s) \o with \o SubSeq(str, e + 1, Len(str))

\* `for ch in out[end..].chars()`: how many token characters str begins with.
TokenRun(str) ==
    LET stops == {i \in 0 .. (Len(str) - 1) : ~TokenChar(str[i + 1])} IN
    IF stops = {} THEN Len(str) ELSE Least(stops)

\* write_log is called: redact_secrets(&command) starts with `out = input`.
\* (output_preview, when given, goes through the same function.)
write_log_call ==
    /\ stage = "idle"
    /\ out' = input
    /\ stage' = "bearer"
    /\ UNCHANGED << input, needle, idx, written, logVars, readerVars, shellVars,
                    listVars, ptyVars >>

\* One turn of the "Authorization: Bearer" loop on the string str: no header,
\* or an empty token behind the first header, leaves the loop (`break`); else
\* the token is replaced and the loop goes round.
bearer_turn(str) ==
    LET hits == Matches(to_ascii_lowercase(str), bearer_needle) IN
    IF hits = {}
       THEN [break |-> TRUE, out |-> str]
       ELSE LET start == Least(hits) + Len(bearer_needle)
                stops == CharMatches(Slice(str, start), Whitespace \cup Quotes)
                end   == IF stops = {} THEN Len(str) ELSE start + Least(stops)
            IN  IF end > start
                   THEN [break |-> FALSE, out |-> replace_range(str, start, end, REDACTED)]
                   ELSE [break |-> TRUE, out |-> str]

redact_bearer ==
    /\ stage = "bearer"
    /\ LET turn == bearer_turn(out) IN
       /\ out' = turn.out
       /\ IF turn.break
             THEN stage' = "prefix" /\ needle' = 1 /\ idx' = 0
             ELSE UNCHANGED << stage, needle, idx >>
    /\ UNCHANGED << input, written, logVars, readerVars, shellVars, listVars, ptyVars >>

\* A slice `[from..]` with from beyond the length panics.
Panics ==
    /\ stage' = "panicked"
    /\ UNCHANGED << out, needle, idx >>

\* One turn of the loop of a key prefix ("sk-ant-", then "sk-").
redact_prefix ==
    /\ stage = "prefix"
    /\ IF idx > Len(out) THEN Panics
       ELSE LET prefix == Prefixes[needle]
                hits   == Matches(Slice(out, idx), prefix)
            IN  IF hits = {}
                   THEN /\ out' = out
                        /\ idx' = 0
                        /\ IF needle < Len(Prefixes)
                              THEN needle' = needle + 1 /\ stage' = stage
                              ELSE needle' = 1 /\ stage' = "apikey"
                   ELSE LET start == idx + Least(hits)
                            end   == start + Len(prefix)
                                        + TokenRun(Slice(out, start + Len(prefix)))
                        IN  /\ IF end - start >= Len(prefix) + MinTokenLen
                                  THEN /\ out' = replace_range(out, start, end, REDACTED)
                                       /\ idx' = start + Len(REDACTED)
                                  ELSE /\ out' = out
                                       /\ idx' = end
                            /\ UNCHANGED << stage, needle >>
    /\ UNCHANGED << input, written, logVars, readerVars, shellVars, listVars, ptyVars >>

\* `while value_start < out.len() && ..is_ascii_whitespace()`.
RECURSIVE SkipWhitespace(_, _)
SkipWhitespace(str, at) ==
    IF at < Len(str) /\ str[at + 1] \in Whitespace THEN SkipWhitespace(str, at + 1) ELSE at

\* One turn of the loop of a key name ("apiKey", "api_key", "apikey").
redact_apikey ==
    /\ stage = "apikey"
    /\ IF idx > Len(out) THEN Panics
       ELSE LET name == to_ascii_lowercase(Needles[needle])
                hits == Matches(Slice(to_ascii_lowercase(out), idx), name)
            IN  IF hits = {}
                   THEN /\ out' = out
                        /\ idx' = 0
                        /\ IF needle < Len(Needles)
                              THEN needle' = needle + 1 /\ stage' = stage
                              ELSE needle' = 0 /\ stage' = "append"
                   ELSE LET start == idx + Least(hits)
                            after == start + Len(Needles[needle])
                            seps  == CharMatches(Slice(out, after), {"=", ":"})
                        IN  IF seps = {}
                               THEN /\ idx' = after
                                    /\ UNCHANGED << out, stage, needle >>
                               ELSE LET value_start == SkipWhitespace(out, after + Least(seps) + 1)
                                        stops == CharMatches(Slice(out, value_start),
                                                             Whitespace \cup Quotes)
                                        value_end == IF stops = {} THEN Len(out)
                                                     ELSE value_start + Least(stops)
                                    IN  /\ out' = IF value_end > value_start
                                                     THEN replace_range(out, value_start,
                                                                        value_end, REDACTED)
                                                     ELSE out
                                        /\ idx' = value_start + Len(REDACTED)
                                        /\ UNCHANGED << stage, needle >>
    /\ UNCHANGED << input, written, logVars, readerVars, shellVars, listVars, ptyVars >>

\* The rest of write_log: the entry is serialized and appended to the day's
\* file; opening or writing may fail.
write_log_append(ok) ==
    /\ stage = "append"
    /\ stage' = "done"
    /\ written' = IF ok THEN "Ok" ELSE "Err"
    /\ UNCHANGED << input, out, needle, idx, logVars, readerVars, shellVars, listVars,
                    ptyVars >>

RedactInit ==
    /\ input \in Inputs
    /\ out = << >> /\ stage = "idle" /\ needle = 0 /\ idx = 0 /\ written = "none"
    /\ PtyInit /\ ReaderIdle /\ ShellIdle /\ ListIdle /\ LogIdle

RedactNext ==
    \/ write_log_call
    \/ redact_bearer
    \/ redact_prefix
    \/ redact_apikey
    \/ \E ok \in BOOLEAN : write_log_append(ok)

RedactSpec == RedactInit /\ [][RedactNext]_vars

\* The thread that runs write_log keeps running.
FairRedactSpec == RedactSpec /\ WF_vars(RedactNext)

\* ------------------------------------------------------------ get_log_entries (logger.rs)

MaxLines == 5        \* lines of the day's file
MaxLimit == 3        \* greatest limit asked for

LogSessions == {"s1", "s2"}

\* A line of the file is blank, text that is no LogEntry, or the entry a
\* write_log call appended: its id (here the number of its line) and its
\* session.
LineKinds == {"blank", "junk"} \cup LogSessions
LineOf(kind, n) ==
    IF kind \in LogSessions
       THEN [kind |-> "entry", id |-> n, session_id |-> kind]
       ELSE [kind |-> kind, id |-> 0, session_id |-> "none"]
Files ==
    {[n \in DOMAIN f |-> LineOf(f[n], n)] :
        f \in UNION {[1 .. k -> LineKinds] : k \in 0 .. MaxLines}}

\* The arguments: session_id (None is "any") and limit.
Queries ==
    {[session |-> s, limit |-> l] :
        s \in {"any"} \cup LogSessions,
        l \in {[some |-> FALSE, n |-> 0]} \cup {[some |-> TRUE, n |-> n] : n \in 0 .. MaxLimit}}

\* VecDeque::push_back, VecDeque::pop_front, Vec::reverse.
push_back(q, e) == Append(q, e)
pop_back(q) == SubSeq(q, 1, Len(q) - 1)
pop_front(q) == Tail(q)
reverse(q) == [i \in 1 .. Len(q) |-> q[Len(q) + 1 - i]]

\* The body of `for line in reader.lines()` for one line.
read_line(entries, line, query) ==
    IF line.kind = "blank" THEN entries
    ELSE IF line.kind # "entry" THEN entries
    ELSE IF query.session # "any" /\ line.session_id # query.session THEN entries
    ELSE LET pushed == push_back(entries, [id |-> line.id, session_id |-> line.session_id])
         IN  IF query.limit.some /\ Len(pushed) > query.limit.n
                THEN pop_front(pushed)
                ELSE pushed

\* The loop over the lines from line k on.
RECURSIVE read_lines(_, _, _, _)
read_lines(lines, k, entries, query) ==
    IF k > Len(lines) THEN entries
    ELSE read_lines(lines, k + 1, read_line(entries, lines[k], query), query)

\* get_log_entries: no file is an empty result; io_ok is whether opening the
\* file and reading its lines succeed.
get_log_entries(file, query, io_ok) ==
    IF ~file.exists THEN [status |-> "Ok", entries |-> << >>]
    ELSE IF ~io_ok THEN [status |-> "Err", entries |-> << >>]
    ELSE [status |-> "Ok", entries |-> reverse(read_lines(file.lines, 1, << >>, query))]

get_log_entries_call(io_ok) ==
    /\ log_result.status = "none"
    /\ log_result' = get_log_entries(log_file, log_query, io_ok)
    /\ UNCHANGED << log_file, log_query, redactVars, readerVars, shellVars, listVars,
                    ptyVars >>

LogInit ==
    /\ log_file \in {[exists |-> FALSE, lines |-> << >>]}
                       \cup {[exists |-> TRUE, lines |-> f] : f \in Files}
    /\ log_query \in Queries
    /\ log_result = [status |-> "none", entries |-> << >>]
    /\ PtyInit /\ ReaderIdle /\ ShellIdle /\ ListIdle /\ RedactIdle

LogNext == \E io_ok \in BOOLEAN : get_log_entries_call(io_ok)

LogSpec == LogInit /\ [][LogNext]_vars

\* ------------------------------------------------------------ properties

ExitCount(s) == Cardinality({i \in DOMAIN events[s] : events[s][i] = "exit"})
KillOks(s) == {i \in DOMAIN killLog[s] : killLog[s][i].ok}
Spawned(s) == spawnResult[s] = "ok"

\* C1: for every session, whatever the interleaving of the reader thread (EOF
\* or read error), the waiter thread and kill calls, at most one "exit" event
\* is emitted.
C1_ExitAtMostOnce == \A s \in Sids : ExitCount(s) <= 1

\* C1's case: the reader and the waiter have both gone through
\* emit_pty_exit_once, and a kill on the session succeeded.
C1_Witness ==
    \E s \in Sids :
        /\ reader[s] \in {"cleanup", "done"}
        /\ waiter[s] \in {"cleanup", "done"}
        /\ KillOks(s) # {}
        /\ ExitCount(s) = 1

\* C2: once a session's shell has exited, or a kill on the session has
\* succeeded (child_id 0 included), an "exit" event for it is eventually
\* emitted, the threads being scheduled fairly.
C2_ExitEventuallyEmitted ==
    \A s \in Sids :
        (Spawned(s) /\ (proc[s] # "alive" \/ KillOks(s) # {})) ~> (ExitCount(s) >= 1)

\* C3 as stated: a kill on a spawned id returns SessionNotFound if and only
\* if it is the second or a later kill on that id.
C3_NotFoundIffLaterKill ==
    \A s \in Sids : Spawned(s) =>
        \A i \in DOMAIN killLog[s] : (~killLog[s][i].ok) <=> (i >= 2)

\* C3 amended: a kill on a spawned id returns SessionNotFound if and only if
\* the record was removed before the call, by an earlier successful kill or by
\* the reader's or the waiter's cleanup; at most one kill per id succeeds, and
\* only a first kill can succeed.
C3_NotFoundIffAlreadyRemoved ==
    \A s \in Sids : Spawned(s) =>
        /\ \A i \in DOMAIN killLog[s] :
              (~killLog[s][i].ok) <=> (killLog[s][i].prior \in {"kill", "reader", "waiter"})
        /\ Cardinality(KillOks(s)) <= 1
        /\ KillOks(s) \subseteq {1}

\* C3's case: the first kill on a spawned id found the record already removed
\* by a background thread.
C3_Witness ==
    \E s \in Sids :
        /\ Spawned(s)
        /\ Len(killLog[s]) >= 1
        /\ ~killLog[s][1].ok
        /\ killLog[s][1].prior \in {"reader", "waiter"}

\* C4: a kill succeeds exactly when the id is registered at its lookup, and
\* the id is absent afterwards; so of any number of kill calls on one id at
\* most one succeeds, and one kill call at most issues signals.
C4_KillAtomic ==
    \A s \in Sids :
        /\ Cardinality(KillOks(s)) <= 1
        /\ killLog[s] # << >> => s \notin DOMAIN sessions
        /\ \A i \in DOMAIN killLog[s] : killLog[s][i].ok <=> killLog[s][i].registered
        /\ \A i, j \in DOMAIN sigLog[s] : sigLog[s][i].by = sigLog[s][j].by

\* C4's case: a second kill on the id ran its lookup while the first, which
\* succeeded, was still inside kill_pty; the second failed.
C4_Witness ==
    \E c \in Callers :
        /\ pc[c] = "terminate"
        /\ Len(killLog[arg[c]]) = 2
        /\ killLog[arg[c]][1].ok
        /\ ~killLog[arg[c]][2].ok

\* C5 as stated: each id is inserted once and its record removed once, and the
\* step that removes it is the reader thread or a kill, never anything else.
C5_RemovedByReaderOrKill ==
    \A s \in Sids :
        /\ insertCount[s] <= 1
        /\ removeCount[s] <= 1
        /\ removedBy[s] \in {"none", "reader", "kill"}

\* C5 amended: each id is inserted once and its record removed once, and the
\* step that removes it is the reader thread, the waiter thread or a kill;
\* once the reader or the waiter has finished, or a kill has succeeded, the
\* record has been removed exactly once and stays absent.
C5_RemovedOnce ==
    \A s \in Sids :
        /\ insertCount[s] <= 1
        /\ removeCount[s] <= 1
        /\ removedBy[s] \in {"none", "reader", "waiter", "kill"}
        /\ (removedBy[s] = "none") <=> (removeCount[s] = 0)
        /\ (reader[s] = "done" \/ waiter[s] = "done" \/ KillOks(s) # {})
              => (removeCount[s] = 1 /\ s \notin DOMAIN sessions)

\* C5's case: the waiter's cleanup found the record and removed it, and the
\* reader's cleanup, which came later, found nothing.
C5_Witness ==
    \E s \in Sids :
        /\ removedBy[s] = "waiter"
        /\ reader[s] = "done"
        /\ removeCount[s] = 1

\* Inside a call that blocks: write_all and flush on the PTY writer, and the
\* external lookup of get_process_cwd.  (The reader's read and the waiter's
\* wait are their threads' positions "reading" and "waiting"; these threads
\* take the registry mutex only in their cleanup step.)
InBlockingIO(c) == pc[c] \in {"write_all", "flush", "get_process_cwd"}

\* C6: no thread is inside a blocking I/O call while it holds the registry
\* mutex or a session mutex.
C6_NoLockAcrossBlockingIO ==
    \A c \in Callers :
        InBlockingIO(c) => (regLock # c /\ \A s \in Sids : sessLock[s] # c)

\* The calls, in order, whose pieces the writer of session s received.
Interleaved(q) ==
    \E i, j, k \in DOMAIN q : i < j /\ j < k /\ q[i][1] = q[k][1] /\ q[j][1] # q[i][1]

\* C7: the pieces of one write_to_pty payload reach the session's writer
\* entirely before or entirely after those of another: never interleaved, and
\* each payload's pieces in order.
C7_WritesSerialized ==
    \A s \in Sids :
        /\ ~Interleaved(stream[s])
        /\ \A i \in DOMAIN stream[s] :
              stream[s][i][2] = "rest" =>
                  (i > 1 /\ stream[s][i - 1] = << stream[s][i][1], "first" >>)

\* C7's case: two callers were inside write_to_pty on one session and the writer
\* has received both payloads in full, one after the other.
C7_Witness ==
    \E s \in Sids :
        /\ Len(stream[s]) = 4
        /\ stream[s][1][1] # stream[s][3][1]
        /\ \E c \in Callers : pc[c] = "flush" /\ arg[c] = s

\* C8: a failed spawn (openpty, spawn_command, take_writer or
\* try_clone_reader failing) leaves nothing behind: no registry entry, no
\* thread, no running child.
C8_FailedSpawnLeavesNothing ==
    \A s \in Sids :
        spawnResult[s] \in SpawnOutcomes \ {"ok"} =>
            /\ s \notin DOMAIN sessions
            /\ reader[s] = "none"
            /\ waiter[s] = "none"
            /\ proc[s] # "alive"

\* C9: after a successful kill the graceful signal comes first, and the
\* forceful signal is sent only if the shell has not exited by then.
C9_ForcefulOnlyIfRunning ==
    \A s \in Sids :
        \A i \in DOMAIN sigLog[s] :
            /\ (sigLog[s][i].sig = "TERM") <=> (i = 1)
            /\ sigLog[s][i].sig = "KILL" => ~sigLog[s][i].exited

\* C10: no signal issued by kill reaches a process other than the session's
\* own shell, the OS being free to reuse the pid of a reaped child.
C10_NoSignalToOtherProcess ==
    \A s \in Sids :
        \A i \in DOMAIN sigLog[s] : sigLog[s][i].target # "stray"

\* C11: every registered session is eventually absent from the registry once
\* its shell has exited or a kill on it has succeeded, the threads being
\* scheduled fairly; a removed id is never registered again, and a cleanup
\* step of the reader or the waiter that finds the id absent changes nothing.
C11_EventuallyAbsent ==
    /\ \A s \in Sids :
          (Spawned(s) /\ (proc[s] # "alive" \/ KillOks(s) # {})) ~> (s \notin DOMAIN sessions)
    /\ [](\A s \in Sids : removedBy[s] # "none" => s \notin DOMAIN sessions)
    /\ [][\A s \in Sids :
              (/\ s \notin DOMAIN sessions
               /\ \/ reader[s] = "cleanup" /\ reader'[s] = "done"
                  \/ waiter[s] = "cleanup" /\ waiter'[s] = "done")
                 => sessions' = sessions]_vars

\* A command of caller c starts in this step (its lookup included).
Starts(c, cmds) == pc[c] = "idle" /\ pc'[c] # "idle" /\ op'[c] \in cmds

\* C12 as stated: a write on a spawned id that returned while the shell is
\* alive returned success, unless its I/O failed.
C12_WriteSucceedsWhileAlive ==
    \A c \in Callers :
        (/\ pc[c] = "returned"
         /\ op[c] = "write"
         /\ Spawned(arg[c])
         /\ proc[arg[c]] = "alive") => ret[c] \in {"Ok", "IoError"}

\* C12 amended: a write finds the id exactly when the record is registered at
\* its lookup, and then returns success unless its I/O fails; the record is
\* registered while the shell is alive, no kill on the id has succeeded and the
\* reader thread is still in its read loop.
C12_WriteSucceedsWhileRegistered ==
    /\ [][\A c \in Callers :
             /\ Starts(c, {"write"}) =>
                   IF arg'[c] \in DOMAIN sessions
                      THEN pc'[c] = "write_all"
                      ELSE pc'[c] = "returned" /\ ret'[c] = "NotFound"
             /\ (pc[c] \in {"write_all", "flush"} /\ pc'[c] = "returned") =>
                   ret'[c] \in {"Ok", "IoError"}]_vars
    /\ [](\A s \in Sids :
             (/\ Spawned(s)
              /\ proc[s] = "alive"
              /\ KillOks(s) = {}
              /\ reader[s] = "reading") => s \in DOMAIN sessions)

\* C12's case: a write on a session whose shell is alive has returned success.
C12_Witness ==
    \E c \in Callers :
        /\ pc[c] = "returned"
        /\ op[c] = "write"
        /\ ret[c] = "Ok"
        /\ proc[arg[c]] = "alive"
        /\ arg[c] \in DOMAIN sessions

\* C13: in the step in which write_to_pty or resize_pty returns an I/O error
\* the registry is unchanged and the id is still registered.
C13_IoErrorKeepsRecord ==
    [][\A c \in Callers :
          (pc[c] # "returned" /\ pc'[c] = "returned" /\ ret'[c] = "IoError") =>
              /\ op'[c] \in {"write", "resize"}
              /\ arg'[c] \in DOMAIN sessions'
              /\ sessions' = sessions]_vars

\* C13's case: a write and a resize on one session have both returned an I/O
\* error, and the session is registered.
C13_Witness ==
    \E c1, c2 \in Callers :
        /\ pc[c1] = "returned" /\ op[c1] = "write" /\ ret[c1] = "IoError"
        /\ pc[c2] = "returned" /\ op[c2] = "resize" /\ ret[c2] = "IoError"
        /\ arg[c1] = arg[c2]
        /\ arg[c1] \in DOMAIN sessions

\* C14: a write, resize, kill or get_cwd whose id is not registered returns
\* SessionNotFound in the step of its lookup, and that step changes neither the
\* registry and its records, nor the mutexes, the signals and timers, the
\* events, the children, the threads or what the writers received.
C14_NotFoundChangesNothing ==
    [][\A c \in Callers :
          (Starts(c, {"write", "resize", "kill", "get_cwd"})
             /\ arg'[c] \notin DOMAIN sessions) =>
              /\ pc'[c] = "returned"
              /\ ret'[c] = "NotFound"
              /\ UNCHANGED << sessions, regLock, sessLock, sigLog, timer, events,
                              exit_emitted, proc, recycled, spawnResult, insertCount,
                              removeCount, reader, waiter, stream >>]_vars

\* C14's case: a resize and a get_cwd on an id that never named a session have
\* both returned SessionNotFound.
C14_Witness ==
    \E c1, c2 \in Callers :
        /\ pc[c1] = "returned" /\ op[c1] = "resize" /\ ret[c1] = "NotFound"
        /\ pc[c2] = "returned" /\ op[c2] = "get_cwd" /\ ret[c2] = "NotFound"
        /\ ~Spawned(arg[c1])
        /\ ~Spawned(arg[c2])

\* C15: once the reader's cleanup has run for a session, or a kill on it has
\* succeeded, the id stays absent and every write, resize and get_cwd that
\* starts on it returns SessionNotFound.
C15_NotFoundForEver ==
    /\ [](\A s \in Sids : (reader[s] = "done" \/ KillOks(s) # {}) => s \notin DOMAIN sessions)
    /\ [][\A c \in Callers :
             (Starts(c, {"write", "resize", "get_cwd"})
                /\ (reader[arg'[c]] = "done" \/ KillOks(arg'[c]) # {})) =>
                 (pc'[c] = "returned" /\ ret'[c] = "NotFound")]_vars

\* C15's case: a write that started after the reader's cleanup has returned
\* SessionNotFound, no kill having been called.
C15_Witness ==
    \E c \in Callers :
        /\ pc[c] = "returned"
        /\ op[c] = "write"
        /\ ret[c] = "NotFound"
        /\ reader[arg[c]] = "done"
        /\ removedBy[arg[c]] = "reader"
        /\ killLog[arg[c]] = << >>

\* C17: get_cwd on a registered id never returns an error: with child_id 0 it
\* returns the cwd stored at spawn at once, otherwise it runs the process
\* lookup and returns the live directory or the stored one; on an id that is
\* not registered it returns SessionNotFound, its only error.
C17_GetCwdNeverFails ==
    [][\A c \in Callers :
          /\ Starts(c, {"get_cwd"}) =>
                IF arg'[c] \in DOMAIN sessions
                   THEN IF sessions[arg'[c]].child_id = 0
                           THEN pc'[c] = "returned" /\ ret'[c] = "fallback"
                           ELSE pc'[c] = "get_process_cwd"
                   ELSE pc'[c] = "returned" /\ ret'[c] = "NotFound"
          /\ (pc[c] = "get_process_cwd" /\ pc'[c] # "get_process_cwd") =>
                /\ pc'[c] = "returned"
                /\ ret'[c] \in {"real_cwd", "fallback"}
                /\ arg[c] \in DOMAIN sessions]_vars

\* C17's case: on a registered session with a known child_id the process
\* lookup failed, and get_cwd returned the stored cwd.
C17_Witness ==
    \E c \in Callers :
        /\ pc[c] = "returned"
        /\ op[c] = "get_cwd"
        /\ ret[c] = "fallback"
        /\ arg[c] \in DOMAIN sessions
        /\ sessions[arg[c]].child_id > 0
        /\ proc[arg[c]] # "alive"

\* C16: the "output" events of a session carry, in the order of the reads,
\* exactly what was read: one event per chunk, each the text of its chunk, and
\* their concatenation is the text of the bytes read so far.
C16_OutputIsWhatWasRead ==
    /\ Len(payloads) = Len(chunks)
    /\ \A i \in DOMAIN payloads : payloads[i] = from_utf8_lossy(chunks[i])
    /\ Concat(chunks) = SubSeq(pty_bytes, 1, read_pos)
    /\ Concat(payloads) = from_utf8_lossy(SubSeq(pty_bytes, 1, read_pos))

\* C18: whatever SHELL holds, the shell spawn selects is one of /bin/zsh,
\* /bin/bash and /bin/sh: the value of SHELL when that is exactly one of the
\* three, /bin/zsh otherwise.
C18_ShellAllowListed ==
    shell # << >> =>
        /\ shell \in {zsh, bash, sh}
        /\ (SHELL.set /\ SHELL.value \in {zsh, bash, sh}) => shell = SHELL.value
        /\ ~(SHELL.set /\ SHELL.value \in {zsh, bash, sh}) => shell = zsh

\* C18's case: SHELL is set to a path that starts like an allow-listed one but
\* is longer, and the default was selected.
C18_Witness ==
    /\ SHELL.set
    /\ Len(SHELL.value) = 3
    /\ SubSeq(SHELL.value, 1, 2) = bash
    /\ shell = zsh

\* The names of the listed entries, in order, and the typed path without its
\* last component.
ListedNames == [i \in DOMAIN listing.entries |-> listing.entries[i].name]
Parent(p) ==
    LET typed == trim_end_matches(p, "/") IN
    SubSeq(typed, 1, Len(typed) - Len(last_component(typed)))
NamesD(p) == Target(dir, p) = [found |-> TRUE, at |-> Home]

\* C19: on the directory that holds a.txt, .hidden and sub/, a listing holds
\* no dot-name unless the last typed component begins with a dot; a path that
\* names the directory, its last component without a dot, yields [sub, a.txt];
\* and with ".h" typed as last component behind the directory, the listing
\* holds .hidden.
C19_HiddenUnlessDotTyped ==
    (listing.status = "Ok" /\ IsExampleDir(dir)) =>
        LET last == last_component(trim_end_matches(path, "/")) IN
        /\ ~starts_with(last, ".") =>
              \A i \in DOMAIN ListedNames : ~starts_with(ListedNames[i], ".")
        /\ (~starts_with(last, ".") /\ NamesD(path)) => ListedNames = << sub, a_txt >>
        /\ (last = << ".", "h" >> /\ NamesD(Parent(path))) =>
              \E i \in DOMAIN ListedNames : ListedNames[i] = dot_hidden

\* C20: the listed entries have every directory before every file and, among
\* directories and among files, the lower-cased names ascending; and they are
\* the entries of the target that the hidden-file rule keeps, each once.
C20_DirsFirstThenByName ==
    listing.status = "Ok" =>
        LET e == listing.entries
            t == Target(dir, path)
            all == IF t.found THEN ReadDir(dir, t.at) ELSE << >>
        IN  /\ \A i, j \in DOMAIN e : i < j =>
                  /\ ~(~e[i].is_dir /\ e[j].is_dir)
                  /\ e[i].is_dir = e[j].is_dir =>
                        ~StrLess(to_lowercase(e[j].name), to_lowercase(e[i].name))
            /\ \A k \in DOMAIN all :
                  Cardinality({i \in DOMAIN e : e[i] = all[k]})
                      = IF Kept(path, all[k]) THEN 1 ELSE 0
            /\ \A i \in DOMAIN e : \E k \in DOMAIN all : e[i] = all[k]

\* C20's case: read_dir yielded the file B, then the file a, then a directory;
\* the listing has the directory first, then a, then B.
C20_Witness ==
    /\ listing.status = "Ok"
    /\ Len(dir) = 3
    /\ dir[1] = [name |-> << "B" >>, is_dir |-> FALSE]
    /\ dir[2] = [name |-> a_txt, is_dir |-> FALSE]
    /\ dir[3].is_dir
    /\ listing.entries = << dir[3], dir[2], dir[1] >>

\* C21: for every session, no "output" event comes after the "exit" event:
\* the exit event is the last event of the session.
C21_NoOutputAfterExit ==
    \A s \in Sids :
        \A i, j \in DOMAIN events[s] :
            (events[s][i] = "exit" /\ i < j) => events[s][j] # "output"

\* C22: redact_secrets, and with it write_log, comes to an end on every
\* input: every loop makes progress and is left after finitely many turns.
\* A turn of the bearer loop that stays in the loop changes the string (a turn
\* that stays and changes nothing is repeated for ever) ...
C22_BearerLoopProgress ==
    stage = "bearer" => (bearer_turn(out).break \/ bearer_turn(out).out # out)

\* ... and the call comes to its end (or to a panic, see C23).
RedactTerminates == <>(stage \in {"done", "panicked"})

\* C23: write_log does not panic: every offset redact_secrets slices the
\* string at (search_from, idx) is at most the length of the string.
C23_NoPanic ==
    /\ stage # "panicked"
    /\ stage \in {"prefix", "apikey"} => idx <= Len(out)

\* The entries of the day's file that match the session filter, in file order.
Matching ==
    SelectSeq(log_file.lines,
              LAMBDA l : /\ l.kind = "entry"
                         /\ log_query.session \in {"any", l.session_id})

\* C24: get_log_entries with limit n returns the min(n, m) most recent of the
\* m matching entries of the day's file, most recent first; with no limit all
\* m in that order; blank and unparsable lines do not count.
C24_MostRecentFirst ==
    log_result.status = "Ok" =>
        LET m == Len(Matching)
            k == IF log_query.limit.some /\ log_query.limit.n < m
                    THEN log_query.limit.n ELSE m
        IN  /\ Len(log_result.entries) = k
            /\ \A i \in 1 .. k :
                   /\ log_result.entries[i].id = Matching[m + 1 - i].id
                   /\ log_result.entries[i].session_id = Matching[m + 1 - i].session_id

\* A limit below the number of matching entries, a session filter that leaves
\* an entry out, and a blank and an unparsable line in the file.
C24_Witness ==
    /\ log_result.status = "Ok"
    /\ log_query.limit.some
    /\ log_query.limit.n >= 1
    /\ log_query.limit.n < Len(Matching)
    /\ log_query.session # "any"
    /\ \E n \in DOMAIN log_file.lines :
           /\ log_file.lines[n].kind = "entry"
           /\ log_file.lines[n].session_id # log_query.session
    /\ \E n \in DOMAIN log_file.lines : log_file.lines[n].kind = "blank"
    /\ \E n \in DOMAIN log_file.lines : log_file.lines[n].kind = "junk"
    /\ Len(log_result.entries) = log_query.limit.n

====
